---- MODULE Spec2Model ----
(***************************************************************************)
(* A model of scraper.py: the event sources, the filter engine, the        *)
(* calendar encoder and the aggregator run.                                *)
(*                                                                         *)
(* Strings are sequences of one-character strings.  An optional value      *)
(* (Python's None or a value) is a sequence of length at most one.  A      *)
(* Python dict whose keys may be missing is a record read through Get.     *)
(* A call returns [exc, val]: exc = "none" and the returned value, or the  *)
(* name of the exception that leaves the function.                         *)
(***************************************************************************)
EXTENDS Integers, Sequences, FiniteSets, TLC

VARIABLES call, ret, pc, sources, config, idx, fetch_log, all_events,
          filter_calls, filtered, pending, writes

vars == <<call, ret, pc, sources, config, idx, fetch_log, all_events,
          filter_calls, filtered, pending, writes>>

unitVars == <<call, ret>>
runVars == <<pc, sources, config, idx, fetch_log, all_events,
             filter_calls, filtered, pending, writes>>

\* ---------------------------------------------------------------- bounds
MaxEvents == 2
MaxStrLen == 3
MaxSources == 2

\* ------------------------------------------------------- python built-ins
None == <<>>
Some(x) == <<x>>

\* dict.get(key, default)
Get(d, key, default) == IF key \in DOMAIN d THEN d[key] ELSE default

Returned(v) == [exc |-> "none", val |-> v]
Raised(e) == [exc |-> e, val |-> <<>>]

SeqsUpTo(S, n) == UNION {[1..k -> S] : k \in 0..n}

\* str.lower() on the alphabet of the model
LowerChar(c) == CASE c = "A" -> "a" [] c = "B" -> "b" [] OTHER -> c
Lower(s) == [i \in 1..Len(s) |-> LowerChar(s[i])]

\* needle in hay
Contains(needle, hay) ==
    \E i \in 0..(Len(hay) - Len(needle)) :
        SubSeq(hay, i + 1, i + Len(needle)) = needle

IsSpace(c) == c \in {" ", "\t"}

RECURSIVE LStrip(_)
LStrip(s) == IF s # <<>> /\ IsSpace(Head(s)) THEN LStrip(Tail(s)) ELSE s

RECURSIVE RStrip(_)
RStrip(s) ==
    IF s # <<>> /\ IsSpace(s[Len(s)]) THEN RStrip(SubSeq(s, 1, Len(s) - 1)) ELSE s

\* str.strip()
Strip(s) == RStrip(LStrip(s))

\* str.split(sep): the list of the pieces between the separators
RECURSIVE Split(_, _)
Split(s, sep) ==
    IF \E i \in 1..Len(s) : s[i] = sep
    THEN LET i == CHOOSE j \in 1..Len(s) :
                      s[j] = sep /\ \A k \in 1..(j - 1) : s[k] # sep
         IN  <<SubSeq(s, 1, i - 1)>> \o Split(SubSeq(s, i + 1, Len(s)), sep)
    ELSE <<s>>

\* ------------------------------------------------------------- timestamps
\* A datetime is [month, day, aware]; aware says it carries a UTC offset.
Naive(m, d) == [month |-> m, day |-> d, aware |-> FALSE]
Aware(m, d) == [month |-> m, day |-> d, aware |-> TRUE]

Before(a, b) == a.month < b.month \/ (a.month = b.month /\ a.day < b.day)

\* datetime.__lt__ / __gt__: comparing a naive with an aware datetime raises
Comparable(a, b) == a.aware = b.aware

DateDigits == {"1", "2"}
DigitValue(c) == IF c = "1" THEN 1 ELSE 2
DigitChar(n) == IF n = 1 THEN "1" ELSE "2"

\* The text of a date is "M-D", with "Z" appended when it carries an offset.
IsDateText(s) ==
    /\ Len(s) \in {3, 4}
    /\ s[1] \in DateDigits /\ s[2] = "-" /\ s[3] \in DateDigits
    /\ (Len(s) = 4 => s[4] = "Z")

\* dateutil parser.parse inside try/except: None when the parse raises
ParseDate(s) ==
    IF IsDateText(s)
    THEN Some([month |-> DigitValue(s[1]), day |-> DigitValue(s[3]),
               aware |-> Len(s) = 4])
    ELSE None

DateText(t) ==
    <<DigitChar(t.month), "-", DigitChar(t.day)>> \o (IF t.aware THEN <<"Z">> ELSE <<>>)

\* datetime.strftime('%Y-%m')
MonthKey(t) == <<"2", "0", "2", "4", "-", "0", DigitChar(t.month)>>

\* ------------------------------------------------------ GenericHTMLSource
\* A source is [type, url, selectors, response].  The response is what the
\* network and the page give: outcome "ok", "network_error", "http_error" or
\* "timeout", and the matched container elements (html) or the ld+json
\* script blocks (schema).  An element maps the name of a sub-selector to
\* what select_one finds; a missing key is no match.  broken: select_one
\* raises on this element.
SchemeChar == "h:"

IsAbsolute(url) == url # <<>> /\ url[1] = SchemeChar

\* the number of characters of s before its first "/"
RECURSIVE UntilSlash(_)
UntilSlash(s) == IF s = <<>> \/ Head(s) = "/" THEN 0 ELSE 1 + UntilSlash(Tail(s))

\* scheme://netloc of an absolute url
Origin(base) ==
    SubSeq(base, 1, 3 + UntilSlash(SubSeq(base, 4, Len(base))))

\* urllib.parse.urljoin(base, href) for an href that starts with "/"
urljoin(base, href) ==
    IF Len(href) >= 2 /\ href[2] = "/"
    THEN LET rest == SubSeq(href, 3, Len(href))
             n == UntilSlash(rest)
             netloc == SubSeq(rest, 1, n)
             path == SubSeq(rest, n + 1, Len(rest))
         IN  IF netloc # <<>> THEN <<base[1], "/", "/">> \o netloc \o path
             ELSE IF path = <<>> THEN base
             ELSE Origin(base) \o path
    ELSE Origin(base) \o href

_extract_text(elem, selectors, name) ==
    IF Get(selectors, name, <<>>) = <<>> THEN <<>>
    ELSE IF name \notin DOMAIN elem THEN <<>>
    ELSE Strip(elem[name])

_extract_date(elem, selectors, name) ==
    LET text == _extract_text(elem, selectors, name)
    IN  IF text = <<>> THEN None ELSE ParseDate(text)

HrefOf(base, href) ==
    IF href[1] = "/" THEN urljoin(base, href) ELSE href

_extract_url(base, elem, selectors) ==
    IF Get(selectors, "url", <<>>) = <<>> THEN <<>>
    ELSE IF "url" \in DOMAIN elem /\ elem.url # <<>>
         THEN HrefOf(base, elem.url)
         ELSE <<>>

HTMLEvent(source, elem) ==
    [title |-> _extract_text(elem, source.selectors, "title"),
     start |-> _extract_date(elem, source.selectors, "date"),
     location |-> _extract_text(elem, source.selectors, "location"),
     description |-> _extract_text(elem, source.selectors, "description"),
     url |-> _extract_url(source.url, elem, source.selectors)]

RECURSIVE HTMLEvents(_, _)
HTMLEvents(source, elems) ==
    IF elems = <<>> THEN <<>>
    ELSE LET elem == Head(elems)
             event == HTMLEvent(source, elem)
         IN  (IF ~elem.broken /\ event.title # <<>> /\ event.start # None
              THEN <<event>> ELSE <<>>) \o HTMLEvents(source, Tail(elems))

\* the body of the outer try of fetch_events
HTMLFetchBody(source) ==
    IF source.response.outcome # "ok" THEN Raised(source.response.outcome)
    ELSE Returned(HTMLEvents(source, source.response.elems))

\* fetch_events without its outer except clause
RecoverNothing(result) == result

\* except Exception: the events collected so far (none) are returned
Recover(result) == IF result.exc = "none" THEN result ELSE Returned(<<>>)

HTMLFetch(source) == Recover(HTMLFetchBody(source))

\* -------------------------------------------------------- SchemaOrgSource
\* A location or address datum is [isdict |-> TRUE, ...keys] for a JSON
\* object and [isdict |-> FALSE, text] for a JSON string.
EmptyObject == [isdict |-> TRUE]

JoinParts(street, locality) ==
    IF street # <<>> /\ locality # <<>> THEN street \o <<",", " ">> \o locality
    ELSE street \o locality

_extract_location(loc) ==
    IF loc.isdict
    THEN IF Get(loc, "name", <<>>) # <<>> THEN loc.name
         ELSE IF "address" \in DOMAIN loc /\ loc.address.isdict
              THEN JoinParts(Get(loc.address, "streetAddress", <<>>),
                             Get(loc.address, "addressLocality", <<>>))
         ELSE IF "address" \in DOMAIN loc THEN loc.address.text
         ELSE <<>>
    ELSE loc.text

ParseField(data, key) ==
    IF Get(data, key, <<>>) # <<>> THEN ParseDate(data[key]) ELSE None

_parse_event(data) ==
    [title |-> Get(data, "name", <<>>),
     start |-> ParseField(data, "startDate"),
     end |-> ParseField(data, "endDate"),
     location |-> _extract_location(Get(data, "location", EmptyObject)),
     description |-> Get(data, "description", <<>>),
     url |-> Get(data, "url", <<>>)]

IsEvent(item) == Get(item, "type", <<>>) = "Event"

RECURSIVE ParseAll(_)
ParseAll(items) ==
    IF items = <<>> THEN <<>>
    ELSE (IF IsEvent(Head(items)) THEN <<_parse_event(Head(items))>> ELSE <<>>)
             \o ParseAll(Tail(items))

\* One script block: json "malformed" (json.loads raises), "list" or
\* "object".  A list member that is no JSON object makes item.get raise
\* before anything of the block is appended.
ScriptEvents(script) ==
    IF script.json = "malformed" THEN <<>>
    ELSE IF \E i \in 1..Len(script.items) : ~script.items[i].isdict THEN <<>>
    ELSE ParseAll(script.items)

RECURSIVE SchemaEvents(_)
SchemaEvents(scripts) ==
    IF scripts = <<>> THEN <<>>
    ELSE ScriptEvents(Head(scripts)) \o SchemaEvents(Tail(scripts))

SchemaFetchBody(source) ==
    IF source.response.outcome # "ok" THEN Raised(source.response.outcome)
    ELSE Returned(SchemaEvents(source.response.scripts))

SchemaFetch(source) == Recover(SchemaFetchBody(source))

\* EventSource.fetch_events, dispatched on the class of the source
fetch_events(source) ==
    IF source.type = "html" THEN HTMLFetch(source) ELSE SchemaFetch(source)

\* ----------------------------------------------------------- EventFilter
EmptyDict == <<>>

AnyTermIn(terms, text) ==
    \E i \in 1..Len(terms) : Contains(Lower(terms[i]), text)

\* _filter_by_location with the include check made before the exclude check
LocationKeepsIncludeFirst(filter_config, event) ==
    LET loc_config == Get(filter_config, "locations", EmptyDict)
        include == Get(loc_config, "include", <<>>)
        exclude == Get(loc_config, "exclude", <<>>)
        location == Lower(Get(event, "location", <<>>))
    IN  IF include # <<>> /\ AnyTermIn(include, location) THEN TRUE
        ELSE ~AnyTermIn(exclude, location) /\ include = <<>>

\* the body of the loop of _filter_by_location: TRUE when the event is appended
LocationKeeps(filter_config, event) ==
    LET loc_config == Get(filter_config, "locations", EmptyDict)
        include == Get(loc_config, "include", <<>>)
        exclude == Get(loc_config, "exclude", <<>>)
        location == Lower(Get(event, "location", <<>>))
    IN  IF AnyTermIn(exclude, location) THEN FALSE
        ELSE IF include # <<>> THEN AnyTermIn(include, location)
        ELSE TRUE

_filter_by_location(filter_config, events) ==
    SelectSeq(events, LAMBDA event : LocationKeeps(filter_config, event))

\* f"{title} {description}".lower()
KeywordText(event) ==
    Lower(Get(event, "title", <<>>) \o <<" ">> \o Get(event, "description", <<>>))

\* the body of the loop of _filter_by_keywords
KeywordKeeps(filter_config, event) ==
    LET kw_config == Get(filter_config, "keywords", EmptyDict)
        include == Get(kw_config, "include", <<>>)
        exclude == Get(kw_config, "exclude", <<>>)
        text == KeywordText(event)
    IN  IF AnyTermIn(exclude, text) THEN FALSE
        ELSE IF include # <<>> THEN AnyTermIn(include, text)
        ELSE TRUE

_filter_by_keywords(filter_config, events) ==
    SelectSeq(events, LAMBDA event : KeywordKeeps(filter_config, event))

\* dr_config.get(key) parsed inside try/except: None when missing, empty or
\* unparsable
ParseBound(dr_config, key) ==
    LET text == Get(dr_config, key, <<>>)
    IN  IF text = <<>> THEN None ELSE ParseDate(text)

\* one pass of the loop of _filter_by_date_range: "skip", "keep" or "raise"
DateStep(event, start_date, end_date) ==
    LET event_date == Get(event, "start", None)
    IN  IF event_date = None THEN "skip"
        ELSE IF start_date # None /\ ~Comparable(event_date[1], start_date[1])
             THEN "raise"
        ELSE IF start_date # None /\ Before(event_date[1], start_date[1])
             THEN "skip"
        ELSE IF end_date # None /\ ~Comparable(event_date[1], end_date[1])
             THEN "raise"
        ELSE IF end_date # None /\ Before(end_date[1], event_date[1])
             THEN "skip"
        ELSE "keep"

_filter_by_date_range(filter_config, events) ==
    LET dr_config == Get(filter_config, "date_range", EmptyDict)
        start_date == ParseBound(dr_config, "start_date")
        end_date == ParseBound(dr_config, "end_date")
    IN  IF \E i \in 1..Len(events) :
               DateStep(events[i], start_date, end_date) = "raise"
        THEN Raised("TypeError")
        ELSE Returned(SelectSeq(events,
                 LAMBDA event : DateStep(event, start_date, end_date) = "keep"))

Enabled(filter_config, section) ==
    Get(Get(filter_config, section, EmptyDict), "enabled", FALSE)

\* filter_events with the keyword stage run whatever its enabled flag says
filter_events_keywords_always(filter_config, events) ==
    LET after_location ==
            IF Enabled(filter_config, "locations")
            THEN _filter_by_location(filter_config, events) ELSE events
        after_keywords == _filter_by_keywords(filter_config, after_location)
    IN  IF Enabled(filter_config, "date_range")
        THEN _filter_by_date_range(filter_config, after_keywords)
        ELSE Returned(after_keywords)

filter_events(filter_config, events) ==
    LET after_location ==
            IF Enabled(filter_config, "locations")
            THEN _filter_by_location(filter_config, events) ELSE events
        after_keywords ==
            IF Enabled(filter_config, "keywords")
            THEN _filter_by_keywords(filter_config, after_location)
            ELSE after_location
    IN  IF Enabled(filter_config, "date_range")
        THEN _filter_by_date_range(filter_config, after_keywords)
        ELSE Returned(after_keywords)

_normalize_location(location) ==
    LET stripped == Strip(location)
    IN  IF \E i \in 1..Len(stripped) : stripped[i] = ","
        THEN LET parts == Split(stripped, ",")
             IN  Strip(parts[Len(parts)])
        ELSE stripped

\* groups[key].append(event), creating the bucket on first use; a dict keeps
\* its keys in insertion order
RECURSIVE AddToGroup(_, _, _)
AddToGroup(groups, key, event) ==
    IF groups = <<>> THEN <<[key |-> key, events |-> <<event>>]>>
    ELSE IF Head(groups).key = key
         THEN <<[key |-> key, events |-> Append(Head(groups).events, event)]>>
                  \o Tail(groups)
         ELSE <<Head(groups)>> \o AddToGroup(Tail(groups), key, event)

Unknown == <<"U", "n", "k", "n", "o", "w", "n">>

LocationKey(event) == _normalize_location(Get(event, "location", Unknown))

RECURSIVE LocationGroupsFrom(_, _)
LocationGroupsFrom(groups, events) ==
    IF events = <<>> THEN groups
    ELSE LocationGroupsFrom(
             AddToGroup(groups, LocationKey(Head(events)), Head(events)),
             Tail(events))

get_location_groups(events) == LocationGroupsFrom(<<>>, events)

\* ------------------------------------------------------ CalendarGenerator
UntitledEvent ==
    <<"U", "n", "t", "i", "t", "l", "e", "d", " ", "E", "v", "e", "n", "t">>

\* One VEVENT.  A property added only when its value is truthy is empty
\* when it was not added.  The uid is determined by title and start.
EventBlock(event_data) ==
    [summary |-> Get(event_data, "title", UntitledEvent),
     dtstart |-> event_data.start[1],
     dtend |-> Get(event_data, "end", None),
     location |-> Get(event_data, "location", <<>>),
     description |-> Get(event_data, "description", <<>>),
     url |-> Get(event_data, "url", <<>>),
     uid |-> <<Get(event_data, "title", <<>>), Get(event_data, "start", None)>>]

Encoded(event_data) == Get(event_data, "start", None) # None

RECURSIVE Blocks(_)
Blocks(events) ==
    IF events = <<>> THEN <<>>
    ELSE (IF Encoded(Head(events)) THEN <<EventBlock(Head(events))>> ELSE <<>>)
             \o Blocks(Tail(events))

generate(default_name, events, calendar_name) ==
    [calname |-> IF calendar_name # None /\ calendar_name[1] # <<>>
                 THEN calendar_name[1] ELSE default_name,
     blocks |-> Blocks(events)]

\* --------------------------------------------------------- EventAggregator
RECURSIVE MonthGroupsFrom(_, _)
MonthGroupsFrom(groups, events) ==
    IF events = <<>> THEN groups
    ELSE MonthGroupsFrom(
             IF Get(Head(events), "start", None) # None
             THEN AddToGroup(groups, MonthKey(Head(events).start[1]), Head(events))
             ELSE groups,
             Tail(events))

\* _group_by_month without the test for a start: an event with none is
\* bucketed under the text of None
RECURSIVE MonthGroupsOfAll(_, _)
MonthGroupsOfAll(groups, events) ==
    IF events = <<>> THEN groups
    ELSE MonthGroupsOfAll(
             AddToGroup(groups,
                        IF Get(Head(events), "start", None) # None
                        THEN MonthKey(Head(events).start[1])
                        ELSE <<"N", "o", "n", "e">>,
                        Head(events)),
             Tail(events))

_group_by_month_of_all(events) == MonthGroupsOfAll(<<>>, events)

_group_by_month(events) == MonthGroupsFrom(<<>>, events)

\* ------------------------------------------------------------ input sets
N11 == Naive(1, 1)
N12 == Naive(1, 2)
N21 == Naive(2, 1)
A12 == Aware(1, 2)

Events(titles, descriptions, locations, starts) ==
    {[title |-> t, start |-> s, location |-> l, description |-> d, url |-> <<>>] :
        t \in titles, d \in descriptions, l \in locations, s \in starts}

\* include and exclude lists
TermLists ==
    {<<>>, <<<<"a">>>>, <<<<"B">>>>, <<<<"a", " ", "b">>, <<"B">>>>}

StageEvents ==
    Events({<<"a">>, <<"B">>}, {<<>>, <<"b">>}, {<<>>, <<"A">>, <<"A", "b">>},
           {None, Some(N11)})

StageConfigs(section) ==
    {section :> [enabled |-> TRUE, include |-> inc, exclude |-> exc] :
        inc \in TermLists, exc \in TermLists}

DateEvents ==
    Events({<<"a">>}, {<<>>}, {<<>>},
           {None, Some(N11), Some(N12), Some(N21), Some(A12)})

\* a bound of the date range: missing, unparsable, naive or with an offset
BoundTexts == {<<>>, <<"x">>, DateText(N12), DateText(A12)}

DateConfigs ==
    {"date_range" :> [enabled |-> TRUE, start_date |-> lo, end_date |-> hi] :
        lo \in BoundTexts, hi \in BoundTexts}

MixedEvents ==
    Events({<<"a">>}, {<<>>, <<"b">>}, {<<"A">>, <<"A", "b">>},
           {None, Some(N12), Some(A12)})

LocationSections ==
    {[enabled |-> FALSE, include |-> <<<<"a">>>>, exclude |-> <<<<"B">>>>],
     [enabled |-> TRUE, include |-> <<<<"a">>>>, exclude |-> <<<<"B">>>>],
     [include |-> <<>>, exclude |-> <<<<"B">>>>]}

KeywordSections ==
    {[enabled |-> FALSE, include |-> <<>>, exclude |-> <<<<"B">>>>],
     [enabled |-> TRUE, include |-> <<>>, exclude |-> <<<<"B">>>>],
     [enabled |-> TRUE, include |-> <<<<"a", " ", "b">>>>, exclude |-> <<>>]}

DateSections ==
    {[enabled |-> FALSE, start_date |-> DateText(N21)],
     [enabled |-> TRUE, start_date |-> DateText(N12), end_date |-> <<"x">>],
     [enabled |-> TRUE, end_date |-> DateText(N11)]}

\* a filter config: each section is optional
FilterConfigs ==
    {EmptyDict}
    \cup {("locations" :> l) @@ ("keywords" :> k) @@ ("date_range" :> d) :
            l \in LocationSections, k \in KeywordSections, d \in DateSections}
    \cup {("keywords" :> k) : k \in KeywordSections}

LocationChars == {"a", ",", " "}
HrefChars == {SchemeChar, "/", "a"}
BaseUrl == <<SchemeChar, "/", "/", "x", "/", "p">>

GroupEvents ==
    Events({<<>>, <<"a">>}, {<<>>}, {<<>>, <<"a">>, <<"b", ",", " ", "a">>},
           {None, Some(N11), Some(N21)})

\* ----------------------------------------------------- the units, called
\* Each action is one call of a function of the program on inputs of the
\* sets above; call records the function and its arguments, ret its result.
IdleCall == [fn |-> "idle"]

Idle == call.fn = "idle"

CallFilterByLocation ==
    /\ Idle
    /\ \E events \in SeqsUpTo(StageEvents, MaxEvents),
          filter_config \in StageConfigs("locations") :
         /\ call' = [fn |-> "_filter_by_location", config |-> filter_config,
                     events |-> events]
         /\ ret' = Returned(_filter_by_location(filter_config, events))
    /\ UNCHANGED runVars

CallFilterByKeywords ==
    /\ Idle
    /\ \E events \in SeqsUpTo(StageEvents, MaxEvents),
          filter_config \in StageConfigs("keywords") :
         /\ call' = [fn |-> "_filter_by_keywords", config |-> filter_config,
                     events |-> events]
         /\ ret' = Returned(_filter_by_keywords(filter_config, events))
    /\ UNCHANGED runVars

CallFilterByDateRange ==
    /\ Idle
    /\ \E events \in SeqsUpTo(DateEvents, MaxEvents),
          filter_config \in DateConfigs :
         /\ call' = [fn |-> "_filter_by_date_range", config |-> filter_config,
                     events |-> events]
         /\ ret' = _filter_by_date_range(filter_config, events)
    /\ UNCHANGED runVars

CallFilterEvents ==
    /\ Idle
    /\ \E events \in SeqsUpTo(MixedEvents, MaxEvents),
          filter_config \in FilterConfigs :
         /\ call' = [fn |-> "filter_events", config |-> filter_config,
                     events |-> events]
         /\ ret' = filter_events(filter_config, events)
    /\ UNCHANGED runVars

CallGetLocationGroups ==
    /\ Idle
    /\ \E events \in SeqsUpTo(GroupEvents, MaxEvents)
                       \cup {<<e>> : e \in Events({<<"a">>}, {<<>>},
                                        SeqsUpTo(LocationChars, MaxStrLen),
                                        {Some(N11)})} :
         /\ call' = [fn |-> "get_location_groups", events |-> events]
         /\ ret' = Returned(get_location_groups(events))
    /\ UNCHANGED runVars

CallGroupByMonth ==
    /\ Idle
    /\ \E events \in SeqsUpTo(GroupEvents, MaxEvents) :
         /\ call' = [fn |-> "_group_by_month", events |-> events]
         /\ ret' = Returned(_group_by_month(events))
    /\ UNCHANGED runVars

CallGenerate ==
    /\ Idle
    /\ \E events \in SeqsUpTo(GroupEvents, MaxEvents) :
         /\ call' = [fn |-> "generate", events |-> events]
         /\ ret' = Returned(generate(<<"M">>, events, None))
    /\ UNCHANGED runVars

CallExtractUrl ==
    /\ Idle
    /\ \E href \in SeqsUpTo(HrefChars, MaxStrLen),
          selectors \in {EmptyDict, [url |-> <<"a">>]},
          found \in BOOLEAN :
         LET elem == IF found THEN [broken |-> FALSE, url |-> href]
                     ELSE [broken |-> FALSE]
         IN  /\ call' = [fn |-> "_extract_url", selectors |-> selectors,
                         elem |-> elem]
             /\ ret' = Returned(_extract_url(BaseUrl, elem, selectors))
    /\ UNCHANGED runVars

Return ==
    /\ ~Idle
    /\ call' = IdleCall
    /\ ret' = Returned(<<>>)
    /\ UNCHANGED runVars

UnitInit ==
    /\ call = IdleCall
    /\ ret = Returned(<<>>)
    /\ pc = "unit"
    /\ sources = <<>>
    /\ config = EmptyDict
    /\ idx = 1
    /\ fetch_log = <<>>
    /\ all_events = <<>>
    /\ filter_calls = 0
    /\ filtered = <<>>
    /\ pending = <<>>
    /\ writes = <<>>

UnitNext ==
    \/ CallFilterByLocation
    \/ CallFilterByKeywords
    \/ CallFilterByDateRange
    \/ CallFilterEvents
    \/ CallGetLocationGroups
    \/ CallGroupByMonth
    \/ CallGenerate
    \/ CallExtractUrl
    \/ Return

UnitSpec == UnitInit /\ [][UnitNext]_vars

\* ------------------------------------------------------ generate_calendars
\* characters of the model's alphabet outside \w, \s and "-"
Stripped(c) == c \in {".", ",", "/", ":", SchemeChar}

\* re.sub(r'[^\w\s-]', '', location)
RemoveUnsafe(location) == SelectSeq(location, LAMBDA c : ~Stripped(c))

\* str.replace(' ', '_')
Underscored(s) == [i \in 1..Len(s) |-> IF s[i] = " " THEN "_" ELSE s[i]]

safe_location(location) == Underscored(Strip(RemoveUnsafe(location)))

GroupFilename(key) ==
    <<"e", "v", "e", "n", "t", "s", "_">> \o key \o <<".", "i", "c", "s">>

DefaultMainFile == <<"e", "v", "e", "n", "t", "s", ".", "i", "c", "s">>
DefaultCalendarName == <<"M", "y", " ", "E", "v", "e", "n", "t", "s">>
EventsDash == <<"E", "v", "e", "n", "t", "s", " ", "-", " ">>

Outputs == Get(config, "outputs", EmptyDict)

\* _save_calendar: the encoded calendar handed to the file of that name;
\* kind, key and events record which call of generate_calendars wrote it
Saved(kind, key, events, filename, calendar_name) ==
    [filename |-> filename, kind |-> kind, key |-> key, events |-> events,
     calendar |-> generate(Get(config, "calendar_name", DefaultCalendarName),
                           events, calendar_name)]

\* one pass of the loop of collect_events
Fetch ==
    /\ pc = "collect"
    /\ idx <= Len(sources)
    /\ LET result == fetch_events(sources[idx])
       IN  IF result.exc = "none"
           THEN /\ all_events' = all_events \o result.val
                /\ idx' = idx + 1
                /\ pc' = pc
           ELSE /\ pc' = "fetch_raised"
                /\ UNCHANGED <<all_events, idx>>
    /\ fetch_log' = Append(fetch_log, idx)
    /\ UNCHANGED <<sources, config, filter_calls, filtered, pending, writes>>
    /\ UNCHANGED unitVars

\* filtered_events = self.event_filter.filter_events(all_events)
ApplyFilter ==
    /\ pc = "collect"
    /\ idx > Len(sources)
    /\ LET result == filter_events(Get(config, "filters", EmptyDict), all_events)
       IN  IF result.exc = "none"
           THEN filtered' = result.val /\ pc' = "main"
           ELSE filtered' = filtered /\ pc' = "filter_raised"
    /\ filter_calls' = filter_calls + 1
    /\ UNCHANGED <<sources, config, idx, fetch_log, all_events, pending, writes>>
    /\ UNCHANGED unitVars

WriteMain ==
    /\ pc = "main"
    /\ writes' = Append(writes,
                        Saved("main", <<>>, filtered,
                              Get(Outputs, "main_calendar", DefaultMainFile), None))
    /\ pc' = "locations"
    /\ UNCHANGED <<sources, config, idx, fetch_log, all_events, filter_calls,
                   filtered, pending>>
    /\ UNCHANGED unitVars

StartLocations ==
    /\ pc = "locations"
    /\ IF Get(Outputs, "by_location", FALSE)
       THEN pending' = get_location_groups(filtered) /\ pc' = "by_location"
       ELSE pending' = <<>> /\ pc' = "months"
    /\ UNCHANGED <<sources, config, idx, fetch_log, all_events, filter_calls,
                   filtered, writes>>
    /\ UNCHANGED unitVars

\* one pass of the loop over location_groups.items(); the loop ends with the
\* last group
WriteLocationCalendar ==
    /\ pc = "by_location"
    /\ IF pending = <<>>
       THEN /\ pc' = "months"
            /\ UNCHANGED <<pending, writes>>
       ELSE /\ writes' = Append(writes,
                   Saved("location", Head(pending).key, Head(pending).events,
                         GroupFilename(safe_location(Head(pending).key)),
                         Some(EventsDash \o Head(pending).key)))
            /\ pending' = Tail(pending)
            /\ pc' = IF Tail(pending) = <<>> THEN "months" ELSE pc
    /\ UNCHANGED <<sources, config, idx, fetch_log, all_events, filter_calls,
                   filtered>>
    /\ UNCHANGED unitVars

StartMonths ==
    /\ pc = "months"
    /\ IF Get(Outputs, "by_month", FALSE)
       THEN pending' = _group_by_month(filtered) /\ pc' = "by_month"
       ELSE pending' = <<>> /\ pc' = "done"
    /\ UNCHANGED <<sources, config, idx, fetch_log, all_events, filter_calls,
                   filtered, writes>>
    /\ UNCHANGED unitVars

WriteMonthCalendar ==
    /\ pc = "by_month"
    /\ IF pending = <<>>
       THEN /\ pc' = "done"
            /\ UNCHANGED <<pending, writes>>
       ELSE /\ writes' = Append(writes,
                   Saved("month", Head(pending).key, Head(pending).events,
                         GroupFilename(Head(pending).key),
                         Some(EventsDash \o Head(pending).key)))
            /\ pending' = Tail(pending)
            /\ pc' = IF Tail(pending) = <<>> THEN "done" ELSE pc
    /\ UNCHANGED <<sources, config, idx, fetch_log, all_events, filter_calls,
                   filtered>>
    /\ UNCHANGED unitVars

\* ------------------------------------------------------- inputs of a run
AllSelectors ==
    [container |-> <<"c">>, title |-> <<"t">>, date |-> <<"d">>,
     location |-> <<"l">>, description |-> <<"s">>, url |-> <<"u">>]

ElemTitled ==
    [broken |-> FALSE, title |-> <<" ", "a">>, date |-> DateText(N11),
     location |-> <<"a", ".">>, url |-> <<"/", "a">>]
ElemUndated ==
    [broken |-> FALSE, title |-> <<"B">>, date |-> <<"x">>, location |-> <<"a">>]
ElemUntitled ==
    [broken |-> FALSE, date |-> DateText(N21), location |-> <<"a">>]
ElemBroken ==
    [broken |-> TRUE, title |-> <<"a">>, date |-> DateText(N11)]
ElemPlain ==
    [broken |-> FALSE, title |-> <<"B">>, date |-> DateText(N21),
     location |-> <<"a">>, description |-> <<"b">>, url |-> <<"a">>]

HTMLSource(outcome, elems) ==
    [type |-> "html", url |-> BaseUrl, selectors |-> AllSelectors,
     response |-> [outcome |-> outcome, elems |-> elems]]

ItemNamed ==
    [isdict |-> TRUE, type |-> "Event", name |-> <<"a">>,
     startDate |-> DateText(A12), endDate |-> DateText(A12),
     location |-> [isdict |-> TRUE,
                   address |-> [isdict |-> TRUE, streetAddress |-> <<"b">>,
                                addressLocality |-> <<"a">>]]]
ItemUnnamed ==
    [isdict |-> TRUE, type |-> "Event", startDate |-> DateText(N12),
     location |-> [isdict |-> FALSE, text |-> <<>>]]
ItemUndated ==
    [isdict |-> TRUE, type |-> "Event", name |-> <<"B">>, startDate |-> <<"x">>,
     location |-> [isdict |-> TRUE, name |-> <<"0", "1">>]]
ItemOther == [isdict |-> TRUE, type |-> "Place", name |-> <<"a">>]
ItemJunk == [isdict |-> FALSE, text |-> <<"a">>]

Script(json, items) == [json |-> json, items |-> items]

SchemaSource(outcome, scripts) ==
    [type |-> "schema", url |-> BaseUrl,
     response |-> [outcome |-> outcome, scripts |-> scripts]]

SourcePool ==
    {HTMLSource("ok", <<ElemTitled, ElemUndated>>),
     HTMLSource("ok", <<ElemBroken, ElemUntitled, ElemPlain>>),
     HTMLSource("network_error", <<ElemTitled>>),
     HTMLSource("http_error", <<ElemPlain>>),
     SchemaSource("ok", <<Script("list", <<ItemNamed, ItemOther, ItemUnnamed>>)>>),
     SchemaSource("ok", <<Script("malformed", <<>>), Script("object", <<ItemUndated>>)>>),
     SchemaSource("ok", <<Script("list", <<ItemNamed, ItemJunk>>),
                          Script("object", <<ItemNamed>>)>>),
     SchemaSource("timeout", <<Script("object", <<ItemNamed>>)>>),
     SchemaSource("parse_error", <<>>)}

OutputsPool ==
    {EmptyDict,
     [by_location |-> TRUE],
     [by_location |-> FALSE, by_month |-> TRUE],
     [by_location |-> TRUE, by_month |-> TRUE],
     [main_calendar |-> GroupFilename(<<"a">>), by_location |-> TRUE,
      by_month |-> TRUE]}

RunFilters ==
    {EmptyDict,
     [keywords |-> [enabled |-> TRUE, exclude |-> <<<<"b">>>>]],
     [date_range |-> [enabled |-> TRUE, start_date |-> DateText(N12)]]}

RunConfigs ==
    {[filters |-> f, outputs |-> o] : f \in RunFilters, o \in OutputsPool}
    \cup {[calendar_name |-> <<"C">>]}

Init ==
    /\ sources \in SeqsUpTo(SourcePool, MaxSources)
    /\ config \in RunConfigs
    /\ pc = "collect"
    /\ idx = 1
    /\ fetch_log = <<>>
    /\ all_events = <<>>
    /\ filter_calls = 0
    /\ filtered = <<>>
    /\ pending = <<>>
    /\ writes = <<>>
    /\ call = IdleCall
    /\ ret = Returned(<<>>)

Next ==
    \/ Fetch
    \/ ApplyFilter
    \/ WriteMain
    \/ StartLocations
    \/ WriteLocationCalendar
    \/ StartMonths
    \/ WriteMonthCalendar

Spec == Init /\ [][Next]_vars

\* ------------------------------------------------- properties of the units
Range(seq) == {seq[i] : i \in 1..Len(seq)}

\* term is a case-insensitive substring of field
CaseInsensitiveSubstring(term, field) ==
    \E i \in 1..(Len(field) + 1), j \in 0..Len(field) :
        Lower(SubSeq(field, i, j)) = Lower(term)

StageCall == call.fn \in {"_filter_by_location", "_filter_by_keywords"}

StageSection ==
    IF call.fn = "_filter_by_location" THEN call.config.locations
    ELSE call.config.keywords

StageField(event) ==
    IF call.fn = "_filter_by_location" THEN event.location
    ELSE event.title \o <<" ">> \o event.description

MatchesExclude(event) ==
    \E k \in 1..Len(StageSection.exclude) :
        CaseInsensitiveSubstring(StageSection.exclude[k], StageField(event))

MatchesInclude(event) ==
    \E k \in 1..Len(StageSection.include) :
        CaseInsensitiveSubstring(StageSection.include[k], StageField(event))

\* C1: in the location stage and in the keyword stage, a record one of whose
\* exclude terms is a case-insensitive substring of the stage's field is
\* absent from the output, whether or not an include term matches it too.
ExcludeWins ==
    StageCall =>
        \A i \in 1..Len(call.events) :
            MatchesExclude(call.events[i]) => call.events[i] \notin Range(ret.val)

\* C1 witness: a keyword stage whose input holds a record matching both an
\* include and an exclude term, beside a record that is kept.
ExcludeWinsWitness ==
    /\ call.fn = "_filter_by_keywords"
    /\ \E i \in 1..Len(call.events) :
           MatchesExclude(call.events[i]) /\ MatchesInclude(call.events[i])
    /\ ret.val # <<>>

SectionOn(filter_config, section) ==
    /\ section \in DOMAIN filter_config
    /\ "enabled" \in DOMAIN filter_config[section]
    /\ filter_config[section].enabled

\* C2: filter_events returns date_range(keyword(location(records))), a stage
\* whose enabled flag is unset being the identity; with no stage enabled the
\* result is the input list itself.
FilterEventsComposes ==
    call.fn = "filter_events" =>
        LET cfg == call.config
            l == IF SectionOn(cfg, "locations")
                 THEN _filter_by_location(cfg, call.events) ELSE call.events
            k == IF SectionOn(cfg, "keywords")
                 THEN _filter_by_keywords(cfg, l) ELSE l
            d == IF SectionOn(cfg, "date_range")
                 THEN _filter_by_date_range(cfg, k) ELSE Returned(k)
        IN  /\ ret = d
            /\ (\A section \in {"locations", "keywords", "date_range"} :
                    ~SectionOn(cfg, section)) => ret = Returned(call.events)

\* C2 witness: all three stages enabled, a record dropped and a record kept.
FilterEventsComposesWitness ==
    /\ call.fn = "filter_events"
    /\ \A section \in {"locations", "keywords", "date_range"} :
           SectionOn(call.config, section)
    /\ ret.exc = "none"
    /\ ret.val # <<>>
    /\ Len(ret.val) < Len(call.events)

\* the two-phase rule of a stage, on the record's field alone
PassesStage(event) ==
    /\ ~MatchesExclude(event)
    /\ StageSection.include # <<>> => MatchesInclude(event)

RECURSIVE GroupedCount(_)
GroupedCount(groups) ==
    IF groups = <<>> THEN 0
    ELSE Len(Head(groups).events) + GroupedCount(Tail(groups))

Startless(event) == event.start = None

\* C4: a record without a start gives no event block in generate and is in
\* no bucket of _group_by_month; the location and keyword stages keep or drop
\* it on its location / title and description alone; get_location_groups
\* puts it in exactly one group.
StartlessHandling ==
    /\ call.fn = "generate" =>
           /\ Len(ret.val.blocks) =
                  Cardinality({i \in 1..Len(call.events) : ~Startless(call.events[i])})
           /\ \A b \in Range(ret.val.blocks) :
                  \E e \in Range(call.events) :
                      ~Startless(e) /\ b.dtstart = e.start[1] /\ b.summary = e.title
    /\ call.fn = "_group_by_month" =>
           /\ \A g \in Range(ret.val) : \A e \in Range(g.events) : ~Startless(e)
           /\ GroupedCount(ret.val) =
                  Cardinality({i \in 1..Len(call.events) : ~Startless(call.events[i])})
    /\ StageCall =>
           \A e \in Range(call.events) :
               Startless(e) => (e \in Range(ret.val) <=> PassesStage(e))
    /\ call.fn = "get_location_groups" =>
           /\ GroupedCount(ret.val) = Len(call.events)
           /\ \A e \in Range(call.events) :
                  Startless(e) =>
                      Cardinality({n \in 1..Len(ret.val) :
                                      e \in Range(ret.val[n].events)}) = 1

\* C4 witness: a month grouping whose input holds a record without a start
\* and a record with one.
StartlessHandlingWitness ==
    /\ call.fn = "_group_by_month"
    /\ \E e \in Range(call.events) : Startless(e)
    /\ ret.val # <<>>

RECURSIVE LastNonEmpty(_)
LastNonEmpty(parts) ==
    IF parts = <<>> THEN <<>>
    ELSE IF Strip(parts[Len(parts)]) # <<>> THEN Strip(parts[Len(parts)])
    ELSE LastNonEmpty(SubSeq(parts, 1, Len(parts) - 1))

ClaimedLocationKey(location) ==
    IF location = <<>> THEN Unknown
    ELSE IF "," \in Range(Strip(location))
         THEN LastNonEmpty(Split(Strip(location), ","))
         ELSE Strip(location)

\* C5: get_location_groups buckets a record under "Unknown" when its
\* location is empty, else under the last non-empty trimmed comma-separated
\* segment of the trimmed location when it has a comma, else under the
\* trimmed location.
LocationKeyAsClaimed ==
    call.fn = "get_location_groups" =>
        \A e \in Range(call.events) :
            \E g \in Range(ret.val) :
                g.key = ClaimedLocationKey(e.location) /\ e \in Range(g.events)

ConfiguredBound(key) ==
    IF key \in DOMAIN call.config.date_range
       /\ IsDateText(call.config.date_range[key])
    THEN ParseDate(call.config.date_range[key]) ELSE None

InClaimedRange(event) ==
    /\ event.start # None
    /\ ConfiguredBound("start_date") # None =>
           ~Before(event.start[1], ConfiguredBound("start_date")[1])
    /\ ConfiguredBound("end_date") # None =>
           ~Before(ConfiguredBound("end_date")[1], event.start[1])

\* C7: the date-range stage raises nothing and returns exactly the records
\* that have a start not before the lower and not after the upper bound, a
\* missing or unparsable bound imposing nothing.
DateRangeAsClaimed ==
    call.fn = "_filter_by_date_range" =>
        /\ ret.exc = "none"
        /\ ret.val = SelectSeq(call.events, InClaimedRange)

\* C8: an element whose url sub-selector matches a non-empty href gives an
\* absolute url: a relative href resolved against the base url of the source,
\* an absolute href unchanged.
HtmlUrlAbsolute ==
    (/\ call.fn = "_extract_url"
     /\ "url" \in DOMAIN call.selectors
     /\ "url" \in DOMAIN call.elem
     /\ call.elem.url # <<>>) =>
        /\ IsAbsolute(ret.val)
        /\ IsAbsolute(call.elem.url) => ret.val = call.elem.url

\* --------------------------------------------------- properties of a run
\* what a source's page holds, a failed fetch giving nothing
RecordsOf(source) ==
    IF source.response.outcome # "ok" THEN <<>>
    ELSE IF source.type = "html"
         THEN HTMLEvents(source, source.response.elems)
         ELSE SchemaEvents(source.response.scripts)

RECURSIVE RecordsOfAll(_)
RecordsOfAll(srcs) ==
    IF srcs = <<>> THEN <<>>
    ELSE RecordsOf(Head(srcs)) \o RecordsOfAll(Tail(srcs))

\* C6: no exception leaves fetch_events or collect_events; the sources are
\* fetched once each in configured order, also after a failed one;
\* collect_events returns the concatenation, in source order, of the
\* records of each source, a failed source giving an empty list.
CollectNeverFails ==
    /\ pc # "fetch_raised"
    /\ fetch_log = [i \in 1..(idx - 1) |-> i]
    /\ pc # "collect" => idx = Len(sources) + 1
    /\ all_events = RecordsOfAll(SubSeq(sources, 1, idx - 1))

\* C6 witness: collection is over, a source failed and a later source gave
\* records.
CollectNeverFailsWitness ==
    /\ pc = "main"
    /\ \E i \in 1..Len(sources), j \in 1..Len(sources) :
           /\ i < j
           /\ sources[i].response.outcome # "ok"
           /\ fetch_events(sources[j]).val # <<>>
    /\ all_events # <<>>

\* C3: no event block of any calendar written (main, per location, per
\* month) comes from a record whose title is empty.
NoUntitledBlock ==
    \A w \in Range(writes) :
        /\ \A e \in Range(w.events) : e.start # None => e.title # <<>>
        /\ \A b \in Range(w.calendar.blocks) : b.summary # <<>>

WritesOfKind(kind) == {i \in 1..Len(writes) : writes[i].kind = kind}

\* the order of the writes of a run, whether or not it ends
WriteOrder ==
    /\ filter_calls <= 1
    /\ writes # <<>> =>
           /\ fetch_log = [i \in 1..Len(sources) |-> i]
           /\ filter_calls = 1
           /\ filtered = filter_events(Get(config, "filters", EmptyDict),
                                       RecordsOfAll(sources)).val
           /\ writes[1].events = filtered
    /\ WritesOfKind("main") = (IF writes = <<>> THEN {} ELSE {1})
    /\ WritesOfKind("location") # {} =>
           "outputs" \in DOMAIN config
           /\ "by_location" \in DOMAIN config.outputs
           /\ config.outputs.by_location
    /\ WritesOfKind("month") # {} =>
           "outputs" \in DOMAIN config
           /\ "by_month" \in DOMAIN config.outputs
           /\ config.outputs.by_month
    /\ \A i \in WritesOfKind("month"), j \in WritesOfKind("location") : j < i
    /\ \A w \in Range(writes) : Range(w.events) \subseteq Range(filtered)

RunEnded == pc \in {"done", "fetch_raised", "filter_raised"}

\* C9: in every run of generate_calendars nothing is written before all the
\* sources are fetched and the filter is applied once; the main calendar is
\* written exactly once, from the filtered list, before any group calendar;
\* location calendars only with by_location, month calendars only with
\* by_month, the former before the latter; a group calendar holds only
\* records of the filtered list.
GenerateCalendarsAsClaimed ==
    /\ WriteOrder
    /\ RunEnded => Cardinality(WritesOfKind("main")) = 1

\* C10: the filenames handed to the write-sink in one run are pairwise
\* distinct.
FilenamesDistinct ==
    \A i \in 1..Len(writes), j \in 1..Len(writes) :
        i # j => writes[i].filename # writes[j].filename

====
